---- MODULE Spec2Model ----
(***************************************************************************)
(* A model of the webtorrent-tracker signaling server (src/server.js):     *)
(* the swarm registry, the announce handler _onSocketMessage, the peer     *)
(* selector _getPeers and the answer relay.                                *)
(*                                                                         *)
(* JavaScript values are tagged records [t, v]; strings that the code      *)
(* measures or uses as property keys are sequences of code units.          *)
(* Plain objects ({}) inherit the keys of Object.prototype: a property     *)
(* read that finds no own property falls back to the prototype.            *)
(***************************************************************************)
EXTENDS Integers, Sequences, FiniteSets, TLC

VARIABLES torrents, fnComplete, crashed, pc, inbox, sent, emitted, nmsgs, startStop, seeds

\* The reconnecting client (Socket): its fields _ws and _errored, the
\* WebSocket objects it has created, the reconnect timers that are armed, the
\* events it has emitted and what it has written to the network.
VARIABLES _ws, _errored, conns, timers, emits, wire, nextMsg, dropped

serverVars ==
  <<torrents, fnComplete, crashed, pc, inbox, sent, emitted, nmsgs, startStop, seeds>>
clientVars == <<_ws, _errored, conns, timers, emits, wire, nextMsg, dropped>>
vars == <<serverVars, clientVars>>

(***************************************************************************)
(* Bounds of the model.                                                    *)
(***************************************************************************)
\* messages handled in a behaviour of Spec
MaxMsgs == 4
\* peers that join the swarm in a behaviour of SpecIntro
MaxSwarm == 22
\* WebSocket objects the client creates in a behaviour of SpecClient
MaxConns == 4
\* calls of Socket.send
MaxSends == 2

(***************************************************************************)
(* Program constants.                                                      *)
(***************************************************************************)
MAX_ANNOUNCE_PEERS == 20
IdLength == 20
IntervalSecs == 600

(***************************************************************************)
(* JavaScript values.                                                      *)
(***************************************************************************)
Undefined == [t |-> "undefined", v |-> <<>>]
Str(s) == [t |-> "string", v |-> s]
Num(n) == [t |-> "number", v |-> n]
Arr(a) == [t |-> "array", v |-> a]
False == [t |-> "boolean", v |-> <<>>]

\* typeof x === 'string' && x: the string itself when it is a non-empty
\* string, a falsy value otherwise.
StringOrFalsy(x) == IF x.t = "string" /\ x.v # <<>> THEN x ELSE Undefined

Repeat(c, n) == [i \in 1..n |-> c]

\* 20-character ASCII identifiers.
P1 == Repeat(65, 20)
P2 == Repeat(66, 20)
H1 == Repeat(104, 20)
H2 == Repeat(105, 20)
\* "propertyIsEnumerable": 20 characters, and a key of Object.prototype.
PropertyIsEnumerable ==
  <<112, 114, 111, 112, 101, 114, 116, 121, 73, 115,
    69, 110, 117, 109, 101, 114, 97, 98, 108, 101>>
\* "constructor"
Constructor == <<99, 111, 110, 115, 116, 114, 117, 99, 116, 111, 114>>
\* 18 ASCII characters followed by the two bytes of U+00E9: 20 code units in
\* the 'binary' form, 19 characters once decoded.
PUtf8 == Repeat(67, 18) \o <<195, 169>>
\* too short
PShort == Repeat(68, 3)

\* Keys that every plain object inherits (the ones the model's inputs use).
ObjectPrototypeKeys == {PropertyIsEnumerable, Constructor}

(***************************************************************************)
(* binaryToUtf8: new Buffer(str, 'binary').toString('utf8').  Each code    *)
(* unit becomes the byte (unit % 256); the bytes are decoded as UTF-8.     *)
(* Decoded here: one-byte characters, well-formed two-byte sequences, and  *)
(* U+FFFD for any other byte.                                              *)
(***************************************************************************)
RECURSIVE Utf8Decode(_)
Utf8Decode(bytes) ==
  IF bytes = <<>> THEN <<>>
  ELSE LET b1 == Head(bytes) % 256 IN
       IF b1 < 128 THEN <<b1>> \o Utf8Decode(Tail(bytes))
       ELSE IF /\ b1 >= 194 /\ b1 <= 223 /\ Len(bytes) >= 2
               /\ (bytes[2] % 256) >= 128 /\ (bytes[2] % 256) <= 191
            THEN <<(b1 - 192) * 64 + ((bytes[2] % 256) - 128)>>
                   \o Utf8Decode(Tail(Tail(bytes)))
            ELSE <<65533>> \o Utf8Decode(Tail(bytes))

binaryToUtf8(str) == Utf8Decode(str)

(***************************************************************************)
(* Peers of a swarm.  swarm.peers is a plain object: a sequence of own     *)
(* properties [key, val] in insertion order (the order for ... in        *)
(* visits them).  A value is a Peer, null (tombstone), or, for a read      *)
(* that falls through to Object.prototype, an inherited function.          *)
(***************************************************************************)
NoPeer(tag) == [t |-> tag, socket |-> "", peerId |-> <<>>, complete |-> FALSE]
PeerNull == NoPeer("null")
PeerUndefined == NoPeer("undefined")

\* { socket: socket, peerId: peerId }; complete is absent (falsy) at first.
NewPeer(socket, peerId) ==
  [t |-> "peer", socket |-> socket, peerId |-> peerId, complete |-> FALSE]

\* The function object Object.prototype[key]; its complete property is set
\* once some handler has run peer.complete = true on it.
InheritedFunction(key, fc) ==
  [t |-> "function", socket |-> "", peerId |-> <<>>, complete |-> key \in fc]

HasOwn(peers, key) == \E i \in 1..Len(peers) : peers[i].key = key
OwnIndex(peers, key) == CHOOSE i \in 1..Len(peers) : peers[i].key = key

\* swarm.peers[key]
GetProp(peers, key, fc) ==
  IF HasOwn(peers, key) THEN peers[OwnIndex(peers, key)].val
  ELSE IF key \in ObjectPrototypeKeys THEN InheritedFunction(key, fc)
  ELSE PeerUndefined

\* swarm.peers[key] = val
SetProp(peers, key, val) ==
  IF HasOwn(peers, key) THEN [peers EXCEPT ![OwnIndex(peers, key)].val = val]
  ELSE Append(peers, [key |-> key, val |-> val])

Truthy(peer) == peer.t \in {"peer", "function"}

EmptySwarm == [complete |-> 0, incomplete |-> 0, peers |-> <<>>]

\* _getSwarm: the registry after the lookup (a swarm is created for an unseen
\* key that Object.prototype does not supply).
_getSwarm(T, binaryInfoHash) ==
  IF binaryInfoHash \in DOMAIN T \/ binaryInfoHash \in ObjectPrototypeKeys THEN T
  ELSE T @@ (binaryInfoHash :> EmptySwarm)

\* The lookup yields an inherited function instead of a swarm.
SwarmIsInherited(T, binaryInfoHash) ==
  binaryInfoHash \notin DOMAIN T /\ binaryInfoHash \in ObjectPrototypeKeys

(***************************************************************************)
(* Messages written to sockets.                                            *)
(***************************************************************************)
Frame(to, kind) ==
  [to |-> to, kind |-> kind, complete |-> 0, incomplete |-> 0, interval |-> 0,
   warning |-> "", reason |-> "", offer |-> Undefined, from_peer_id |-> <<>>,
   payload |-> Undefined]

FailureFrame(socket, message) == [Frame(socket, "failure") EXCEPT !.reason = message]

ResponseFrame(socket, swarm, warning) ==
  [Frame(socket, "response") EXCEPT !.complete = swarm.complete,
                                    !.incomplete = swarm.incomplete,
                                    !.interval = IntervalSecs,
                                    !.warning = warning]

OfferFrame(peer, offer, peerId) ==
  [Frame(peer.socket, "offer") EXCEPT !.offer = offer, !.from_peer_id = peerId]

AnswerFrame(toPeer, answer) == [Frame(toPeer.socket, "answer") EXCEPT !.payload = answer]

(***************************************************************************)
(* The announce message: JSON text as parsed.  json is "unparseable",      *)
(* "null" (JSON.parse gives null), "number" (a non-object) or "object".    *)
(***************************************************************************)
Field(data, f) == IF data.json = "object" THEN data[f] ELSE Undefined

EventIs(data, e) == Field(data, "event").t = "string" /\ Field(data, "event").v = e

\* Number(data.left) === 0
LeftIsZero(left) ==
  \/ left.t = "number" /\ left.v = 0
  \/ left.t = "null"
  \/ left.t = "string" /\ left.v \in {<<>>, <<48>>}

Min(a, b) == IF a <= b THEN a ELSE b

\* NumWant without the MAX_ANNOUNCE_PEERS cap.
MutNumWant(offers) ==
  IF offers.t \in {"array", "string"} THEN Len(offers.v) ELSE 0

\* Math.min(Number(data.offers && data.offers.length) || 0, MAX_ANNOUNCE_PEERS)
NumWant(offers) ==
  Min(IF offers.t \in {"array", "string"} THEN Len(offers.v) ELSE 0,
      MAX_ANNOUNCE_PEERS)

\* _getPeers that stops one peer early (peers.length >= numWant - 1).
RECURSIVE MutGetPeersShort(_, _)
MutGetPeersShort(peers, numWant) ==
  IF peers = <<>> \/ numWant <= 1 THEN <<>>
  ELSE IF Head(peers).val.t = "peer"
       THEN <<Head(peers).val>> \o MutGetPeersShort(Tail(peers), numWant - 1)
       ELSE MutGetPeersShort(Tail(peers), numWant)

\* _getPeers that leaves the loop at a null entry instead of skipping it.
RECURSIVE MutGetPeersBreak(_, _)
MutGetPeersBreak(peers, numWant) ==
  IF peers = <<>> \/ numWant <= 0 THEN <<>>
  ELSE IF Head(peers).val.t = "peer"
       THEN <<Head(peers).val>> \o MutGetPeersBreak(Tail(peers), numWant - 1)
       ELSE <<>>

\* _getPeers: own properties in insertion order, null values skipped, at most
\* numWant of them.
RECURSIVE _getPeers(_, _)
_getPeers(peers, numWant) ==
  IF peers = <<>> \/ numWant <= 0 THEN <<>>
  ELSE IF Head(peers).val.t = "peer"
       THEN <<Head(peers).val>> \o _getPeers(Tail(peers), numWant - 1)
       ELSE _getPeers(Tail(peers), numWant)

(***************************************************************************)
(* The event transitions.  Each yields the swarm and the prototype marks   *)
(* after the case, the warning, the event emitted, and how the switch is   *)
(* left: "break" (go on to the response), "return" (out holds what was     *)
(* sent) or "throw".                                                       *)
(***************************************************************************)
Outcome(swarm, fc, warning, emit, flow, out) ==
  [swarm |-> swarm, fnComplete |-> fc, warning |-> warning, emit |-> emit,
   flow |-> flow, out |-> out]

\* Started without the check for a peer that is already in the swarm.
MutStarted(swarm, fc, peerId, socket, data) ==
  LET counted == IF LeftIsZero(Field(data, "left"))
                 THEN [swarm EXCEPT !.complete = @ + 1]
                 ELSE [swarm EXCEPT !.incomplete = @ + 1]
  IN Outcome([counted EXCEPT !.peers = SetProp(@, peerId, NewPeer(socket, peerId))],
             fc, "", "start", "break", <<>>)

Started(swarm, fc, peerId, socket, data) ==
  LET peer == GetProp(swarm.peers, peerId, fc) IN
  IF Truthy(peer)
  THEN Outcome(swarm, fc, "unexpected started event from peer that is already in swarm",
               "", "break", <<>>)
  ELSE LET counted == IF LeftIsZero(Field(data, "left"))
                      THEN [swarm EXCEPT !.complete = @ + 1]
                      ELSE [swarm EXCEPT !.incomplete = @ + 1]
       IN Outcome([counted EXCEPT !.peers = SetProp(@, peerId, NewPeer(socket, peerId))],
                  fc, "", "start", "break", <<>>)

Stopped(swarm, fc, peerId) ==
  LET peer == GetProp(swarm.peers, peerId, fc) IN
  IF ~Truthy(peer)
  THEN Outcome(swarm, fc, "unexpected stopped event from peer that is not in swarm",
               "", "break", <<>>)
  ELSE LET counted == IF peer.complete
                      THEN [swarm EXCEPT !.complete = @ - 1]
                      ELSE [swarm EXCEPT !.incomplete = @ - 1]
       IN Outcome([counted EXCEPT !.peers = SetProp(@, peerId, PeerNull)],
                  fc, "", "stop", "break", <<>>)

\* Completed without the check for a peer that is already marked complete.
MutCompleted(swarm, fc, peerId) ==
  LET peer == GetProp(swarm.peers, peerId, fc) IN
  IF ~Truthy(peer)
  THEN Outcome(swarm, fc, "unexpected completed event from peer that is not in swarm",
               "", "break", <<>>)
  ELSE LET counted == [swarm EXCEPT !.complete = @ + 1, !.incomplete = @ - 1] IN
       IF peer.t = "peer"
       THEN Outcome([counted EXCEPT !.peers =
                        SetProp(@, peerId, [peer EXCEPT !.complete = TRUE])],
                    fc, "", "complete", "break", <<>>)
       ELSE Outcome(counted, fc \cup {peerId}, "", "complete", "break", <<>>)

Completed(swarm, fc, peerId) ==
  LET peer == GetProp(swarm.peers, peerId, fc) IN
  IF ~Truthy(peer)
  THEN Outcome(swarm, fc, "unexpected completed event from peer that is not in swarm",
               "", "break", <<>>)
  ELSE IF peer.complete
  THEN Outcome(swarm, fc,
               "unexpected completed event from peer that is already marked as completed",
               "", "break", <<>>)
  ELSE LET counted == [swarm EXCEPT !.complete = @ + 1, !.incomplete = @ - 1] IN
       IF peer.t = "peer"
       THEN Outcome([counted EXCEPT !.peers =
                        SetProp(@, peerId, [peer EXCEPT !.complete = TRUE])],
                    fc, "", "complete", "break", <<>>)
       ELSE Outcome(counted, fc \cup {peerId}, "", "complete", "break", <<>>)

Update(swarm, fc, peerId) ==
  LET peer == GetProp(swarm.peers, peerId, fc) IN
  IF ~Truthy(peer)
  THEN Outcome(swarm, fc, "unexpected update event from peer that is not in swarm",
               "", "break", <<>>)
  ELSE Outcome(swarm, fc, "", "update", "break", <<>>)

Answered(swarm, fc, peerId, socket, data) ==
  LET peer == GetProp(swarm.peers, peerId, fc) IN
  IF ~Truthy(peer)
  THEN Outcome(swarm, fc, "unexpected answered event from peer that is not in swarm",
               "", "break", <<>>)
  ELSE LET toPeerId == StringOrFalsy(Field(data, "to_peer_id")) IN
       IF toPeerId.t # "string"
       THEN Outcome(swarm, fc, "", "warning", "return",
                    <<FailureFrame(socket, "invalid to_peer_id")>>)
       ELSE LET toPeer == GetProp(swarm.peers, toPeerId.v, fc)
                answer == IF Field(data, "answer").t = "string"
                          THEN Field(data, "answer") ELSE False
            IN IF ~Truthy(toPeer)
               THEN Outcome(swarm, fc, "", "warning", "return", <<>>)
               ELSE IF toPeer.t = "function"
               THEN Outcome(swarm, fc, "", "", "throw", <<>>)
               ELSE Outcome(swarm, fc, "", "answer", "return",
                            <<AnswerFrame(toPeer, answer)>>)

InvalidEvent(swarm, fc, socket) ==
  Outcome(swarm, fc, "", "warning", "return", <<FailureFrame(socket, "invalid event")>>)

\* switch (data.event)
Switch(swarm, fc, peerId, socket, data) ==
  IF EventIs(data, "started") THEN Started(swarm, fc, peerId, socket, data)
  ELSE IF EventIs(data, "stopped") THEN Stopped(swarm, fc, peerId)
  ELSE IF EventIs(data, "completed") THEN Completed(swarm, fc, peerId)
  ELSE IF EventIs(data, "") \/ Field(data, "event").t = "undefined"
       THEN Update(swarm, fc, peerId)
  ELSE IF EventIs(data, "answered") THEN Answered(swarm, fc, peerId, socket, data)
  ELSE InvalidEvent(swarm, fc, socket)

\* Introductions that leave the announcing peer out.
MutIntroductionsNotSelf(peers, offers, peerId) ==
  SelectSeq([i \in 1..Len(peers) |-> OfferFrame(peers[i], offers.v[i], peerId)],
            LAMBDA f : \E i \in 1..Len(peers) :
                         peers[i].socket = f.to /\ peers[i].peerId # peerId)

\* peers.forEach(function (peer, i) { peer.socket.send({offer: data.offers[i], ...}) })
Introductions(peers, offers, peerId) ==
  [i \in 1..Len(peers) |-> OfferFrame(peers[i], offers.v[i], peerId)]

\* The validation of info_hash and peer_id: the failure reason, "" if valid.
Validate(infoHash, peerId) ==
  IF infoHash.t # "string" THEN "invalid info_hash"
  ELSE IF Len(infoHash.v) # IdLength THEN "invalid info_hash"
  ELSE IF peerId.t # "string" THEN "invalid peer_id"
  ELSE IF Len(peerId.v) # IdLength THEN "invalid peer_id"
  ELSE ""

Result(T, fc, out, crash, emit) ==
  [torrents |-> T, fnComplete |-> fc, sent |-> out, crashed |-> crash, emitted |-> emit]

\* _onSocketMessage(socket, data): the whole handler.
HandleMessage(T, fc, socket, data) ==
  IF data.json = "unparseable"
  THEN Result(T, fc, <<FailureFrame(socket, "invalid socket message")>>, FALSE, "warning")
  ELSE IF data.json = "null" THEN Result(T, fc, <<>>, TRUE, "")
  ELSE
  LET infoHash == StringOrFalsy(Field(data, "info_hash"))
      peerId == IF Field(data, "peer_id").t = "string"
                THEN StringOrFalsy(Str(binaryToUtf8(Field(data, "peer_id").v)))
                ELSE Undefined
      invalid == Validate(infoHash, peerId)
  IN
  IF invalid # "" THEN Result(T, fc, <<FailureFrame(socket, invalid)>>, FALSE, "warning")
  ELSE IF SwarmIsInherited(T, infoHash.v) THEN Result(T, fc, <<>>, TRUE, "")
  ELSE
  LET T1 == _getSwarm(T, infoHash.v)
      numWant == NumWant(Field(data, "offers"))
      o == Switch(T1[infoHash.v], fc, peerId.v, socket, data)
      T2 == [T1 EXCEPT ![infoHash.v] = o.swarm]
  IN
  IF o.flow = "throw" THEN Result(T2, o.fnComplete, <<>>, TRUE, "")
  ELSE IF o.flow = "return" THEN Result(T2, o.fnComplete, o.out, FALSE, o.emit)
  ELSE Result(T2, o.fnComplete,
              <<ResponseFrame(socket, o.swarm, o.warning)>>
                \o Introductions(_getPeers(o.swarm.peers, numWant),
                                 Field(data, "offers"), peerId.v),
              FALSE, o.emit)

(***************************************************************************)
(* Observations used to state properties.                                  *)
(***************************************************************************)
\* The peer id has an own, non-null entry in the swarm.
Present(swarm, peerId) ==
  HasOwn(swarm.peers, peerId) /\ swarm.peers[OwnIndex(swarm.peers, peerId)].val.t = "peer"

PresentPeers(swarm) == {i \in 1..Len(swarm.peers) : swarm.peers[i].val.t = "peer"}

Sum(swarm) == swarm.complete + swarm.incomplete

\* The message reaches the switch: it parses to a non-null value and both
\* identifiers pass validation.
DecodedPeerId(data) ==
  IF Field(data, "peer_id").t = "string"
  THEN StringOrFalsy(Str(binaryToUtf8(Field(data, "peer_id").v)))
  ELSE Undefined

WellFormed(data) ==
  /\ data.json \in {"number", "object"}
  /\ Validate(StringOrFalsy(Field(data, "info_hash")), DecodedPeerId(data)) = ""

\* started-then-stopped monitor: stage 1 after a started from a peer id that
\* was not present, stage 2 after the stopped from the same id that follows it
\* directly; sum is complete + incomplete before the started.
Idle == [stage |-> 0, info_hash |-> <<>>, peer_id |-> <<>>, sum |-> 0]

Observe(mon, T, data) ==
  IF ~WellFormed(data) \/ SwarmIsInherited(T, Field(data, "info_hash").v) THEN Idle
  ELSE LET h == Field(data, "info_hash").v
           p == DecodedPeerId(data).v
           swarm == _getSwarm(T, h)[h]
       IN IF EventIs(data, "started") /\ ~Present(swarm, p)
          THEN [stage |-> 1, info_hash |-> h, peer_id |-> p, sum |-> Sum(swarm)]
          ELSE IF /\ EventIs(data, "stopped") /\ mon.stage = 1
                  /\ mon.info_hash = h /\ mon.peer_id = p
          THEN [mon EXCEPT !.stage = 2]
          ELSE Idle

\* The present peers counted as seeds: <<info_hash, peer id>> of the peers
\* whose started carried left == 0 or that have sent completed.
SeedsAfter(sd, T, data, T2) ==
  IF ~WellFormed(data) \/ SwarmIsInherited(T, Field(data, "info_hash").v) THEN sd
  ELSE LET h == Field(data, "info_hash").v
           p == DecodedPeerId(data).v
           before == _getSwarm(T, h)[h]
       IN IF /\ EventIs(data, "started") /\ ~Present(before, p) /\ Present(T2[h], p)
             /\ LeftIsZero(Field(data, "left"))
          THEN sd \cup {<<h, p>>}
          ELSE IF EventIs(data, "completed") /\ Present(before, p) THEN sd \cup {<<h, p>>}
          ELSE IF EventIs(data, "stopped") /\ Present(before, p) THEN sd \ {<<h, p>>}
          ELSE sd

(***************************************************************************)
(* Inputs.                                                                 *)
(***************************************************************************)
Sockets == {"s1", "s2"}

Offer1 == Str(<<111, 49>>)
Offer2 == Str(<<111, 50>>)
Answer1 == Str(<<97, 49>>)

Message(ih, pid, ev, left, offers, to, ans) ==
  [json |-> "object", info_hash |-> ih, peer_id |-> pid, event |-> ev, left |-> left,
   offers |-> offers, to_peer_id |-> to, answer |-> ans]

NotObject(kind) ==
  [json |-> kind, info_hash |-> Undefined, peer_id |-> Undefined, event |-> Undefined,
   left |-> Undefined, offers |-> Undefined, to_peer_id |-> Undefined,
   answer |-> Undefined]

\* Fields a transition does not read are left undefined.
Announce(ih, pid, ev, left, offers) ==
  Message(Str(ih), Str(pid), ev, left, offers, Undefined, Undefined)

Answer(ih, pid, to, ans) ==
  Message(Str(ih), Str(pid), Str("answered"), Undefined, Undefined, to, ans)

On(socket, datas) == {[socket |-> socket, data |-> d] : d \in datas}

\* The connections and the peer ids announced on them.
Senders == {<<"s1", P1>>, <<"s2", P2>>, <<"s2", P1>>, <<"s1", PropertyIsEnumerable>>}

MalformedInputs ==
  {NotObject("unparseable"), NotObject("null"), NotObject("number")}
  \cup {Announce(H1, P1, Str("paused"), Undefined, Arr(<<Offer1, Offer2>>)),
        Announce(PropertyIsEnumerable, P1, Str("paused"), Undefined, Undefined)}
  \cup {[Announce(H1, P1, Str("started"), Num(0), Undefined) EXCEPT !.info_hash = ih] :
          ih \in {Undefined, Str(PShort), Num(7)}}
  \cup {[Announce(H1, P1, Str("started"), Num(0), Undefined) EXCEPT !.peer_id = pid] :
          pid \in {Undefined, Str(PShort), Str(PUtf8)}}

StartedInputs(p) ==
  {Announce(H1, p, Str("started"), left, offers) :
     left \in {Num(0), Num(100)},
     offers \in {Undefined, Arr(<<>>), Arr(<<Offer1, Offer2>>)}}

OtherAnnounceInputs(p) ==
  {Announce(H1, p, ev, Undefined, Undefined) :
     ev \in {Str("stopped"), Str("completed"), Str(""), Undefined}}
  \cup {Announce(H1, p, ev, Undefined, Arr(<<Offer1, Offer2>>)) :
          ev \in {Str("stopped"), Str("completed")}}
  \cup {Announce(H1, p, Str(""), Undefined, Arr(<<Offer1>>))}

AnsweredInputs(p) ==
  {Answer(H1, p, to, Answer1) :
     to \in {Undefined, Str(P1), Str(P2), Str(PropertyIsEnumerable), Str(Constructor)}}
  \cup {Answer(H1, p, Str(P1), Num(5)), Answer(H1, p, Str(P2), Num(5))}
  \cup {Announce(H1, p, Str("answered"), Undefined, Arr(<<Offer1, Offer2>>))}

\* A second swarm, with a smaller choice of messages.
SecondSwarmInputs ==
  On("s1", {Announce(H2, P1, Str("started"), Num(100), Arr(<<Offer1, Offer2>>)),
            Announce(H2, P1, Str("stopped"), Undefined, Undefined),
            Announce(H2, P1, Str("completed"), Undefined, Undefined),
            Answer(H2, P1, Str(P2), Answer1)})
  \cup On("s2", {Announce(H2, P2, Str("started"), Num(0), Undefined)})

Inputs ==
  On("s1", MalformedInputs)
  \cup UNION {On(sp[1], StartedInputs(sp[2]) \cup OtherAnnounceInputs(sp[2])
                          \cup AnsweredInputs(sp[2])) : sp \in Senders}
  \cup SecondSwarmInputs

NoMessage == [socket |-> "", data |-> NotObject("none")]

(***************************************************************************)
(* The reconnecting client.  Each WebSocket object the client creates is   *)
(* a record: its readyState, whether the client's handlers are attached    *)
(* to it, whether its once-wrapped onerror has been called, and, as        *)
(* observations, whether it has raised an error event and the connection   *)
(* whose error armed the timer that created it (0 for the constructor).    *)
(* emits lists the events the client emitted in the last step.             *)
(***************************************************************************)
NewWebSocket(cause) ==
  [readyState |-> "CONNECTING", attached |-> TRUE, onerrorCalled |-> FALSE,
   reported |-> FALSE, cause |-> cause]

\* Socket.prototype._init: the fields after a connection attempt is started.
_init(cs, cause) ==
  [errored |-> FALSE, conns |-> Append(cs, NewWebSocket(cause)), ws |-> Len(cs) + 1]

\* Socket.prototype._onclose on the current fields: the handlers of this._ws
\* (if any) are cleared, this._ws becomes null, and close is emitted unless
\* _errored is set.
_onclose(w, errored, cs) ==
  [ws |-> 0,
   conns |-> IF w # 0 THEN [cs EXCEPT ![w].attached = FALSE] ELSE cs,
   emits |-> IF ~errored THEN <<"close">> ELSE <<>>]

\* ws.close() on a WebSocket object: the closing handshake starts.
WsCloseCall(c) ==
  IF c.readyState \in {"CONNECTING", "OPEN"} THEN [c EXCEPT !.readyState = "CLOSING"] ELSE c

\* Socket.prototype.close: this._ws.close(), and _onclose() if that throws,
\* which it does when this._ws is null.
close(w, errored, cs) ==
  IF w = 0 THEN _onclose(w, errored, cs)
  ELSE [ws |-> w, conns |-> [cs EXCEPT ![w] = WsCloseCall(@)], emits |-> <<>>]

\* Socket.prototype.send without the readyState test.
MutCanSend(w, cs) == w # 0

\* Socket.prototype.send transmits only on an open current connection.
CanSend(w, cs) == w # 0 /\ cs[w].readyState = "OPEN"

ClientInit ==
  /\ _errored = _init(<<>>, 0).errored
  /\ conns = _init(<<>>, 0).conns
  /\ _ws = _init(<<>>, 0).ws
  /\ timers = <<>>
  /\ emits = <<>>
  /\ wire = <<>>
  /\ nextMsg = 1
  /\ dropped = {}


(***************************************************************************)
(* The state machine.  A text frame arrives on a socket (Receive), the     *)
(* 'message' handler runs to completion (OnSocketMessage), and the frames  *)
(* it wrote leave the server (Transmit).  An uncaught exception ends the   *)
(* process.                                                                *)
(***************************************************************************)
Init ==
  /\ torrents = <<>>
  /\ fnComplete = {}
  /\ crashed = FALSE
  /\ pc = "idle"
  /\ inbox = NoMessage
  /\ sent = <<>>
  /\ emitted = ""
  /\ nmsgs = 0
  /\ startStop = Idle
  /\ seeds = {}
  /\ ClientInit

Receive(socket, data, bound) ==
  /\ pc = "idle"
  /\ ~crashed
  /\ nmsgs < bound
  /\ pc' = "handling"
  /\ inbox' = [socket |-> socket, data |-> data]
  /\ nmsgs' = nmsgs + 1
  /\ UNCHANGED <<torrents, fnComplete, crashed, sent, emitted, startStop, seeds>>
  /\ UNCHANGED clientVars

OnSocketMessage ==
  /\ pc = "handling"
  /\ LET r == HandleMessage(torrents, fnComplete, inbox.socket, inbox.data) IN
       /\ torrents' = r.torrents
       /\ fnComplete' = r.fnComplete
       /\ sent' = r.sent
       /\ crashed' = r.crashed
       /\ emitted' = r.emitted
       /\ seeds' = SeedsAfter(seeds, torrents, inbox.data, r.torrents)
  /\ startStop' = Observe(startStop, torrents, inbox.data)
  /\ pc' = "sent"
  /\ UNCHANGED <<inbox, nmsgs>>
  /\ UNCHANGED clientVars

Transmit ==
  /\ pc = "sent"
  /\ ~crashed
  /\ pc' = "idle"
  /\ inbox' = NoMessage
  /\ sent' = <<>>
  /\ emitted' = ""
  /\ UNCHANGED <<torrents, fnComplete, crashed, nmsgs, startStop, seeds>>
  /\ UNCHANGED clientVars

Next ==
  \/ \E in \in Inputs : Receive(in.socket, in.data, MaxMsgs)
  \/ OnSocketMessage
  \/ Transmit

Spec == Init /\ [][Next]_vars

\* The behaviours in which no identifier is a key of Object.prototype.
PlainInputs ==
  {in \in Inputs : \A f \in {"info_hash", "peer_id", "to_peer_id"} :
                     in.data[f].t = "string" => in.data[f].v \notin ObjectPrototypeKeys}

NextPlain ==
  \/ \E in \in PlainInputs : Receive(in.socket, in.data, MaxMsgs)
  \/ OnSocketMessage
  \/ Transmit

SpecPlain == Init /\ [][NextPlain]_vars

(***************************************************************************)
(* A swarm that grows past MAX_ANNOUNCE_PEERS: the peers Joiner(1),        *)
(* Joiner(2), ... start one after the other; between two joins the first   *)
(* peer may stop, and any peer that has joined may announce with 0 to      *)
(* MaxSwarm offers.                                                        *)
(***************************************************************************)
Joiner(i) == Repeat(74, 19) \o <<32 + i>>

OffersOf(k) == Arr([i \in 1..k |-> Str(<<111, 32 + i>>)])

IntroInputs(T) ==
  LET joined == IF H1 \in DOMAIN T THEN Len(T[H1].peers) ELSE 0 IN
  (IF joined < MaxSwarm
   THEN On("s1", {Announce(H1, Joiner(joined + 1), Str("started"), Num(100), offers) :
                    offers \in {Undefined, OffersOf(joined + 1)}})
   ELSE {})
  \cup (IF joined >= 1
        THEN On("s2", {Announce(H1, Joiner(joined), Str(""), Undefined, OffersOf(k)) :
                         k \in {0, 1, MAX_ANNOUNCE_PEERS - 1, MAX_ANNOUNCE_PEERS,
                                MAX_ANNOUNCE_PEERS + 1, MaxSwarm}}
                      \cup {Announce(H1, Joiner(1), Str("stopped"), Undefined, Undefined),
                            Announce(H1, Joiner(1), Str("started"), Num(0), OffersOf(2))})
        ELSE {})

NextIntro ==
  \/ \E in \in IntroInputs(torrents) : Receive(in.socket, in.data, MaxSwarm + 2)
  \/ OnSocketMessage
  \/ Transmit

SpecIntro == Init /\ [][NextIntro]_vars

(***************************************************************************)
(* The client's steps: the events of its WebSocket objects (open, error,   *)
(* close), the reconnect timer, and the calls of send and close by its     *)
(* user.  The close event of a WebSocket object and the reconnect timer    *)
(* are independent: either may come first.                                 *)
(***************************************************************************)
Remove(seq, i) == SubSeq(seq, 1, i - 1) \o SubSeq(seq, i + 1, Len(seq))

\* The open event of c: _onopen emits ready.
WsOpen(c) ==
  /\ conns[c].readyState = "CONNECTING"
  /\ conns' = [conns EXCEPT ![c].readyState = "OPEN"]
  /\ emits' = IF conns[c].attached THEN <<"ready">> ELSE <<>>
  /\ UNCHANGED <<_ws, _errored, timers, wire, nextMsg, dropped>>
  /\ UNCHANGED serverVars

\* An error event of c.  onerror is once(_onerror): it runs _onerror on the
\* first event only, and not at all when the handlers have been cleared.
WsError(c) ==
  /\ conns[c].readyState # "CLOSED"
  /\ LET raised == [conns EXCEPT ![c].reported = TRUE] IN
     IF conns[c].attached /\ ~conns[c].onerrorCalled
     THEN LET r == close(_ws, TRUE, [raised EXCEPT ![c].onerrorCalled = TRUE])
          IN /\ _errored' = TRUE
             /\ _ws' = r.ws
             /\ conns' = r.conns
             /\ timers' = Append(timers, c)
             /\ emits' = r.emits \o <<"warning">>
     ELSE /\ conns' = raised
          /\ emits' = <<>>
          /\ UNCHANGED <<_ws, _errored, timers>>
  /\ UNCHANGED <<wire, nextMsg, dropped>>
  /\ UNCHANGED serverVars

\* The close event of c: _onclose runs if the handlers of c are attached.
WsClose(c) ==
  /\ conns[c].readyState # "CLOSED"
  /\ LET closed == [conns EXCEPT ![c].readyState = "CLOSED"] IN
     IF conns[c].attached
     THEN LET r == _onclose(_ws, _errored, closed) IN
          /\ _ws' = r.ws
          /\ conns' = r.conns
          /\ emits' = r.emits
     ELSE /\ conns' = closed
          /\ emits' = <<>>
          /\ UNCHANGED _ws
  /\ UNCHANGED <<_errored, timers, wire, nextMsg, dropped>>
  /\ UNCHANGED serverVars

\* A reconnect timer fires: _init.
Timer(i) ==
  /\ i \in 1..Len(timers)
  /\ Len(conns) < MaxConns
  /\ LET r == _init(conns, timers[i]) IN
       /\ _errored' = r.errored
       /\ conns' = r.conns
       /\ _ws' = r.ws
  /\ timers' = Remove(timers, i)
  /\ emits' = <<>>
  /\ UNCHANGED <<wire, nextMsg, dropped>>
  /\ UNCHANGED serverVars

\* send(message): messages are numbered to tell them apart.
Send ==
  /\ nextMsg <= MaxSends
  /\ nextMsg' = nextMsg + 1
  /\ IF CanSend(_ws, conns)
     THEN wire' = Append(wire, nextMsg) /\ UNCHANGED dropped
     ELSE dropped' = dropped \cup {nextMsg} /\ UNCHANGED wire
  /\ emits' = <<>>
  /\ UNCHANGED <<_ws, _errored, conns, timers>>
  /\ UNCHANGED serverVars

\* close() called by the user of the client.
UserClose ==
  /\ LET r == close(_ws, _errored, conns) IN
       /\ _ws' = r.ws
       /\ conns' = r.conns
       /\ emits' = r.emits
  /\ UNCHANGED <<_errored, timers, wire, nextMsg, dropped>>
  /\ UNCHANGED serverVars

NextClient ==
  \/ \E c \in 1..Len(conns) : WsOpen(c)
  \/ \E c \in 1..Len(conns) : WsError(c)
  \/ \E c \in 1..Len(conns) : WsClose(c)
  \/ \E i \in 1..Len(timers) : Timer(i)
  \/ Send
  \/ UserClose

SpecClient == Init /\ [][NextClient]_vars

(***************************************************************************)
(* The completion callback of a send (socket.onSend, passed with the       *)
(* Response and with the failure message): _onSocketSend.  With an error   *)
(* it calls self.handleClose, which Server does not define.                *)
(***************************************************************************)
OnSocketSend(err) ==
  /\ pc = "sent"
  /\ ~crashed
  /\ \E i \in 1..Len(sent) : sent[i].kind \in {"response", "failure"}
  /\ crashed' = err
  /\ UNCHANGED <<torrents, fnComplete, pc, inbox, sent, emitted, nmsgs, startStop, seeds>>
  /\ UNCHANGED clientVars

NextDelivery ==
  \/ \E in \in Inputs : Receive(in.socket, in.data, MaxMsgs)
  \/ OnSocketMessage
  \/ Transmit
  \/ \E err \in BOOLEAN : OnSocketSend(err)

SpecDelivery == Init /\ [][NextDelivery]_vars

(***************************************************************************)
(* Properties.                                                             *)
(***************************************************************************)
\* The handler is about to run on a message that reaches the switch, in the
\* swarm of its info_hash.
Handling == pc = "handling"
Data == inbox.data
ReachesSwitch ==
  Handling /\ WellFormed(Data) /\ ~SwarmIsInherited(torrents, Field(Data, "info_hash").v)
InfoHashOf(data) == Field(data, "info_hash").v
SwarmBefore == _getSwarm(torrents, InfoHashOf(Data))[InfoHashOf(Data)]
Sender == DecodedPeerId(Data).v

\* C1: in every reachable state both counters of every swarm are
\* non-negative.
C1_CountersNonNegative ==
  \A h \in DOMAIN torrents : torrents[h].complete >= 0 /\ torrents[h].incomplete >= 0

\* C2: in every reachable state complete + incomplete of every swarm equals
\* the number of peer ids with a present (own, non-null) entry.
C2_SumIsPresentCount ==
  \A h \in DOMAIN torrents : Sum(torrents[h]) = Cardinality(PresentPeers(torrents[h]))

\* C3: a started from a peer id that is not present, directly followed by a
\* stopped from the same id, leaves complete + incomplete as it was before
\* the started, and a started from that id that follows is accepted: the
\* entry is created, a counter is incremented and the response carries no
\* warning.
C3_StartStopNetZero ==
  [][/\ (startStop'.stage = 2 /\ ~crashed')
          => Sum(torrents'[startStop'.info_hash]) = startStop'.sum
     /\ (/\ ReachesSwitch /\ startStop.stage = 2 /\ EventIs(Data, "started")
         /\ InfoHashOf(Data) = startStop.info_hash /\ Sender = startStop.peer_id)
          => /\ Present(torrents'[InfoHashOf(Data)], Sender)
             /\ Sum(torrents'[InfoHashOf(Data)]) = Sum(SwarmBefore) + 1
             /\ sent'[1].kind = "response" /\ sent'[1].warning = ""]_vars

\* C4: in every reachable state complete is the number of present peers that
\* are seeds (started with left == 0, or sent completed) and incomplete the
\* number of present peers that are not.
SeedCount(h) ==
  Cardinality({i \in PresentPeers(torrents[h]) : <<h, torrents[h].peers[i].key>> \in seeds})
C4_CountersMatchSeeds ==
  \A h \in DOMAIN torrents :
    /\ torrents[h].complete = SeedCount(h)
    /\ torrents[h].incomplete = Cardinality(PresentPeers(torrents[h])) - SeedCount(h)

OwnEntry(swarm, peerId) == swarm.peers[OwnIndex(swarm.peers, peerId)].val
OffersSupplied(data) ==
  IF Field(data, "offers").t = "array" THEN Len(Field(data, "offers").v) ELSE 0
Pushes(frames) == Cardinality({i \in 1..Len(frames) : frames[i].kind = "offer"})
\* complete, incomplete and the peer entries of swarm h (none for a swarm
\* that does not exist).
View(T, h) == IF h \in DOMAIN T THEN T[h] ELSE EmptySwarm
SwarmsUnchanged ==
  \A h \in DOMAIN torrents \cup DOMAIN torrents' : View(torrents', h) = View(torrents, h)

AlreadyCompleted ==
  "unexpected completed event from peer that is already marked as completed"
AlreadyInSwarm == "unexpected started event from peer that is already in swarm"

\* C5: a completed from a present peer that is already marked complete
\* changes no counter and no peer entry, and the response to the sender
\* carries a warning message.
C5_CompletedTwiceNoOp ==
  [][(/\ ReachesSwitch /\ EventIs(Data, "completed")
      /\ Present(SwarmBefore, Sender) /\ OwnEntry(SwarmBefore, Sender).complete)
       => /\ torrents' = torrents
          /\ ~crashed'
          /\ Len(sent') >= 1
          /\ sent'[1].kind = "response" /\ sent'[1].to = inbox.socket
          /\ sent'[1].warning # ""
          /\ sent'[1].complete = SwarmBefore.complete
          /\ sent'[1].incomplete = SwarmBefore.incomplete]_vars

C5_Witness ==
  /\ pc = "sent" /\ EventIs(Data, "completed")
  /\ Len(sent) >= 1 /\ sent[1].kind = "response" /\ sent[1].warning = AlreadyCompleted
  /\ Present(torrents[InfoHashOf(Data)], Sender)
  /\ OwnEntry(torrents[InfoHashOf(Data)], Sender).complete
  /\ torrents[InfoHashOf(Data)].complete = 1 /\ torrents[InfoHashOf(Data)].incomplete = 0

\* C6: an answered whose to_peer_id names no present peer of the sender's
\* swarm sends no message to any connection and does not crash the server,
\* whether or not the sender is present.
C6_UnknownTargetSilent ==
  [][(/\ ReachesSwitch /\ EventIs(Data, "answered")
      /\ StringOrFalsy(Field(Data, "to_peer_id")).t = "string"
      /\ ~Present(SwarmBefore, Field(Data, "to_peer_id").v))
       => (sent' = <<>> /\ ~crashed')]_vars

\* C7: an answered from a present peer whose to_peer_id names a present peer
\* of the same swarm sends exactly one message, the answer payload unmodified,
\* on the connection of that peer, and changes no swarm.
C7_AnswerRelayedVerbatim ==
  [][(/\ ReachesSwitch /\ EventIs(Data, "answered")
      /\ Present(SwarmBefore, Sender)
      /\ StringOrFalsy(Field(Data, "to_peer_id")).t = "string"
      /\ Present(SwarmBefore, Field(Data, "to_peer_id").v))
       => /\ Len(sent') = 1
          /\ sent'[1].kind = "answer"
          /\ sent'[1].to = OwnEntry(SwarmBefore, Field(Data, "to_peer_id").v).socket
          /\ sent'[1].payload = Field(Data, "answer")
          /\ torrents' = torrents
          /\ ~crashed']_vars

\* C8: a message that fails validation (unparseable, missing or wrong-length
\* info_hash or peer_id, unrecognized event) results in exactly one message,
\* the failure reason on the sender's connection, changes no swarm, and the
\* server goes on to handle later messages.
RecognizedEvent(data) ==
  \/ Field(data, "event").t = "undefined"
  \/ \E e \in {"started", "stopped", "completed", "", "answered"} : EventIs(data, e)
FailsValidation(data) ==
  \/ data.json = "unparseable"
  \/ /\ data.json \in {"number", "object"}
     /\ (~WellFormed(data) \/ ~RecognizedEvent(data))
C8_InvalidMessageRejected ==
  [][(Handling /\ FailsValidation(Data))
       => /\ Len(sent') = 1
          /\ sent'[1].kind = "failure" /\ sent'[1].to = inbox.socket
          /\ sent'[1].reason # ""
          /\ SwarmsUnchanged
          /\ ~crashed']_vars

\* C9: a started from a peer id that is already present changes no counter
\* and no peer entry, yet the sender gets a Response with the current counts
\* and the already-in-swarm warning, followed by the peer introductions for
\* the offers supplied.
C9_DuplicateStarted ==
  [][(ReachesSwitch /\ EventIs(Data, "started") /\ Present(SwarmBefore, Sender))
       => /\ torrents' = torrents
          /\ ~crashed'
          /\ Len(sent') >= 1
          /\ sent'[1].kind = "response" /\ sent'[1].to = inbox.socket
          /\ sent'[1].warning = AlreadyInSwarm
          /\ sent'[1].complete = SwarmBefore.complete
          /\ sent'[1].incomplete = SwarmBefore.incomplete
          /\ Len(sent') - 1 = Min(OffersSupplied(Data),
                                  Cardinality(PresentPeers(SwarmBefore)))
          /\ \A i \in 2..Len(sent') :
               /\ sent'[i].kind = "offer"
               /\ sent'[i].from_peer_id = Sender
               /\ sent'[i].offer = Field(Data, "offers").v[i - 1]]_vars

C9_Witness ==
  /\ pc = "sent" /\ EventIs(Data, "started")
  /\ Len(sent) >= 2 /\ sent[1].kind = "response" /\ sent[1].warning = AlreadyInSwarm
  /\ sent[2].kind = "offer"
  /\ Present(torrents[InfoHashOf(Data)], Sender)
  /\ OwnEntry(torrents[InfoHashOf(Data)], Sender).socket # inbox.socket

\* C10: for every announce that reaches peer introduction the number of
\* introduction pushes is min(offers supplied, 20, present peers of the
\* swarm), hence at most min(offers supplied, 20), and zero when no offers
\* are supplied.
C10_PushCount ==
  [][(ReachesSwitch /\ Len(sent') >= 1 /\ sent'[1].kind = "response")
       => /\ Pushes(sent') =
               Min(Min(OffersSupplied(Data), 20),
                   Cardinality(PresentPeers(torrents'[InfoHashOf(Data)])))
          /\ Pushes(sent') <= Min(OffersSupplied(Data), 20)
          /\ (OffersSupplied(Data) = 0 => Pushes(sent') = 0)]_vars

C10_Witness ==
  /\ pc = "sent" /\ Len(sent) >= 1 /\ sent[1].kind = "response"
  /\ OffersSupplied(Data) > 20
  /\ Cardinality(PresentPeers(torrents[InfoHashOf(Data)])) > 20
  /\ Pushes(sent) = 20

\* C11 as claimed: a valid stopped, completed or update message causes no
\* peer-introduction push, even when it carries offers and the swarm has
\* present peers.
NotStartedAnnounce(data) ==
  \/ EventIs(data, "stopped") \/ EventIs(data, "completed") \/ EventIs(data, "")
  \/ Field(data, "event").t = "undefined"
C12_NeverCrashes == ~crashed

\* The present entries of a swarm in the iteration order of its peer map.
IsPresentEntry(e) == e.val.t = "peer"
PresentInOrder(swarm) == SelectSeq(swarm.peers, IsPresentEntry)
Responded == Len(sent') >= 1 /\ sent'[1].kind = "response"

\* C18: the Response is the first message sent and the pushes follow it; the
\* i-th push goes to the connection of the i-th present entry in the
\* iteration order of the peer map (null entries do not count), carries
\* offers[i] and the announcer's peer id; there is one push for each of the
\* first min(offers, 20, present) present entries, and no offer is pushed
\* twice.
C18_PushesFollowMapOrder ==
  [][(ReachesSwitch /\ Responded)
       => LET present == PresentInOrder(torrents'[InfoHashOf(Data)])
              n == Len(sent') - 1
          IN /\ n = Min(Min(OffersSupplied(Data), 20), Len(present))
             /\ \A i \in 1..n :
                  /\ sent'[i + 1].kind = "offer"
                  /\ sent'[i + 1].to = present[i].val.socket
                  /\ sent'[i + 1].offer = Field(Data, "offers").v[i]
                  /\ sent'[i + 1].from_peer_id = Sender
             /\ \A i, j \in 1..n : i # j => sent'[i + 1].offer # sent'[j + 1].offer]_vars

C18_Witness ==
  /\ pc = "sent" /\ Len(sent) = 3 /\ sent[1].kind = "response"
  /\ LET peers == torrents[InfoHashOf(Data)].peers IN
       /\ Len(peers) = 3
       /\ peers[1].val.t = "null"
       /\ sent[2].kind = "offer" /\ sent[2].to = peers[2].val.socket
       /\ sent[3].kind = "offer" /\ sent[3].to = peers[3].val.socket
       /\ sent[2].offer # sent[3].offer

\* C19: when the announcer is present after its transition and supplies at
\* least as many offers as there are present peers (at most 20), one of the
\* pushes goes to the connection of the announcer's own entry, with the
\* announcer's peer id as from_peer_id.
C19_AnnouncerIsIntroducedToItself ==
  [][(/\ ReachesSwitch /\ Responded
      /\ Present(torrents'[InfoHashOf(Data)], Sender)
      /\ OffersSupplied(Data) >= Cardinality(PresentPeers(torrents'[InfoHashOf(Data)]))
      /\ Cardinality(PresentPeers(torrents'[InfoHashOf(Data)])) <= 20)
       => \E i \in 2..Len(sent') :
            /\ sent'[i].kind = "offer"
            /\ sent'[i].to = OwnEntry(torrents'[InfoHashOf(Data)], Sender).socket
            /\ sent'[i].from_peer_id = Sender]_vars

C19_Witness ==
  /\ pc = "sent" /\ Len(sent) = 3 /\ sent[1].kind = "response"
  /\ Present(torrents[InfoHashOf(Data)], Sender)
  /\ Cardinality(PresentPeers(torrents[InfoHashOf(Data)])) = 2
  /\ OwnEntry(torrents[InfoHashOf(Data)], Sender).socket = inbox.socket
  /\ \E i \in 2..3 : sent[i].to = inbox.socket /\ sent[i].from_peer_id = Sender
  /\ \E i \in 2..3 : sent[i].to # inbox.socket

\* What looking up a peer id in swarm h yields.
PeerIds == {P1, P2, PropertyIsEnumerable, Constructor}
Lookup(T, fc, h, key) == GetProp(View(T, h).peers, key, fc)

\* C20: a message for swarm H leaves every other swarm as it was: its
\* counters, its peer entries and what a lookup of a peer id in it yields;
\* pushes and relayed answers go only to connections of peers registered in
\* swarm H; the entries that swarm H had are kept, in their order, and only
\* the sender's entry and the counters (by at most one) change.
C20_SwarmIsolation ==
  [][ReachesSwitch
       => LET H == InfoHashOf(Data) IN
          /\ \A h \in (DOMAIN torrents \cup DOMAIN torrents') \ {H} :
               /\ View(torrents', h) = View(torrents, h)
               /\ \A key \in PeerIds :
                    Lookup(torrents', fnComplete', h, key) = Lookup(torrents, fnComplete, h, key)
          /\ \A i \in 1..Len(sent') : sent'[i].kind \in {"offer", "answer"}
               => \E j \in PresentPeers(torrents'[H]) :
                    torrents'[H].peers[j].val.socket = sent'[i].to
          /\ LET old == View(torrents, H).peers
                 new == torrents'[H].peers
             IN /\ Len(new) >= Len(old)
                /\ \A i \in 1..Len(old) :
                     /\ new[i].key = old[i].key
                     /\ old[i].key # Sender => new[i] = old[i]
                /\ torrents'[H].complete - View(torrents, H).complete \in {-1, 0, 1}
                /\ torrents'[H].incomplete - View(torrents, H).incomplete \in {-1, 0, 1}]_vars

(***************************************************************************)
(* The reconnecting client.                                                *)
(***************************************************************************)
Conns == 1..Len(conns)

\* c raises its first error event in this step
FirstReport(c) == ~conns[c].reported /\ conns'[c].reported

\* the close event of c happens in this step
Closes(c) == conns[c].readyState # "CLOSED" /\ conns'[c].readyState = "CLOSED"

Emitted(seq, e) == Cardinality({i \in 1..Len(seq) : seq[i] = e})

\* armed timers and started attempts that the error of c caused
TimersOf(c) == Cardinality({i \in 1..Len(timers) : timers[i] = c})
AttemptsOf(c) == Cardinality({d \in Conns : conns[d].cause = c})

Attached == {c \in Conns : conns[c].attached}

\* C13: each connection that reports an error produces exactly one warning
\* (on its first error event, none on later ones) and exactly one reconnect
\* (one timer armed, which starts one attempt when it fires); an attempt is
\* started only by a timer that fires.
C13_OneWarningOneAttemptPerFailure ==
  [][/\ \A c \in Conns : FirstReport(c)
          => Emitted(emits', "warning") = 1 /\ timers' = Append(timers, c)
     /\ (\A c \in Conns : ~FirstReport(c))
          => Emitted(emits', "warning") = 0 /\ Len(timers') <= Len(timers)
     /\ Len(conns') > Len(conns)
          => \E i \in 1..Len(timers) :
               timers' = Remove(timers, i) /\ conns'[Len(conns')].cause = timers[i]
     /\ \A c \in Conns : conns'[c].reported => (TimersOf(c) + AttemptsOf(c))' = 1]_vars

\* C14: at most one connection has the client's handlers attached; an
\* attempt is started only when the previous connection has been torn down
\* (no handlers attached, reference cleared); the close callback of a
\* connection detaches and clears no other connection.
C14_OneConnectionAtATime ==
  [][/\ Cardinality(Attached') <= 1
     /\ Len(conns') > Len(conns) => Attached = {} /\ _ws = 0
     /\ \A c \in Conns : Closes(c)
          => /\ _ws \in {0, c}
             /\ \A d \in Conns \ {c} : conns'[d].attached = conns[d].attached]_vars

\* C15: when the close event of a connection that reported an error is
\* handled, no close notification is emitted.
C15_NoCloseForFailedConnection ==
  [][\A c \in Conns : (Closes(c) /\ conns[c].reported) => Emitted(emits', "close") = 0]_vars

\* C16: when a connection that reported no error closes, close is emitted
\* once, no timer is armed and no attempt is started, in that step and in
\* every later one.
CleanlyClosed == \E c \in Conns : conns[c].readyState = "CLOSED" /\ ~conns[c].reported

C16_CleanCloseIsFinal ==
  [][/\ \A c \in Conns : (Closes(c) /\ ~conns[c].reported)
          => emits' = <<"close">> /\ timers' = timers /\ Len(conns') = Len(conns)
     /\ CleanlyClosed => Len(timers') <= Len(timers) /\ Len(conns') = Len(conns)]_vars

\* C17: send without an open current connection transmits nothing, emits
\* nothing and changes no field of the client; whatever is transmitted is the
\* message of the send call in progress, on an open connection, so a dropped
\* message is never transmitted later.
NotOpen == _ws = 0 \/ conns[_ws].readyState # "OPEN"

C17_SendDropsWhenNotOpen ==
  [][/\ (nextMsg' # nextMsg /\ NotOpen)
          => /\ wire' = wire
             /\ emits' = <<>>
             /\ UNCHANGED <<_ws, _errored, conns, timers>>
     /\ wire' # wire => ~NotOpen /\ wire' = Append(wire, nextMsg)
     /\ \A i \in 1..Len(wire') : wire'[i] \notin dropped']_vars

C17_Witness ==
  /\ Len(conns) >= 2 /\ _ws # 0 /\ conns[_ws].readyState = "OPEN"
  /\ dropped = {1}
  /\ wire = <<2>>

====
